---- MODULE Spec2Model ----
(***************************************************************************)
(* Board (src/services/preact-canvas/components/board/index.tsx): the      *)
(* accessible grid of buttons laid over the game canvas.  The model keeps  *)
(* the component's fields, the DOM attributes it writes (tabindex,         *)
(* aria-label), the platform's focused element, and what it sends to its   *)
(* collaborators (renderer.setFocus, animator.updateCells, onCellClick).   *)
(* Every handler is one atomic step: the UI thread runs a callback to its  *)
(* end, including the blur listener the DOM runs inside focus()/blur().    *)
(***************************************************************************)
EXTENDS Integers, Sequences, FiniteSets, TLC

\* props.width and props.height of the modelled board
Width == 5
Height == 5
\* longest gridChanges array the game logic pushes in one notification
MaxBatchLen == 2
\* how many moveFocusByKey(1, 0) calls from the initial state the run follows
MaxRightMoves == 5

VARIABLES
    buttons,               \* this._buttons: the button elements in creation order
    additionalButtonData,  \* this._additionalButtonData: button -> <<x, y, cell>>
    currentTabableBtn,     \* this._currentTabableBtn
    tabindex,              \* the tabindex attribute of every button
    ariaLabel,             \* the aria-label attribute of every button
    activeElement,         \* document.activeElement: a button, or Body
    rendererFocus,         \* the last coordinate given to props.renderer.setFocus
    cellFocus,             \* isFeaturePhone || cellFocusMode
    listeners,             \* the addEventListener registrations that were not removed
    subscribers,           \* the callbacks subscribed to the game logic's changes
    teardownCalls,         \* how often renderer.stop, animator.stop, putCanvas were called
    inDocument,            \* the component's DOM is part of the document
    clicks,                \* props.onCellClick calls made by the last event
    animatorCalls,         \* props.animator.updateCells calls made by the last event
    last,                  \* the last event handled: its kind, and a notification's payload
    run                    \* the events handled so far while they follow a scenario

vars == <<buttons, additionalButtonData, currentTabableBtn, tabindex, ariaLabel,
          activeElement, rendererFocus, cellFocus, listeners, subscribers,
          teardownCalls, inDocument, clicks, animatorCalls, last, run>>

\* Any element that is not one of the grid's buttons (document.body, a td, the
\* table, the canvas): the side-table has no entry for it.
Body == 0

\* The neutral cell every button starts with.
defaultCell ==
    [flagged |-> FALSE, hasMine |-> FALSE, revealed |-> FALSE,
     touchingFlags |-> 0, touchingMines |-> 0]

\* The digits of a template literal `${n}`.
Digit(d) == <<"0", "1", "2", "3", "4", "5", "6", "7", "8", "9">>[d + 1]

RECURSIVE DecimalString(_)
DecimalString(n) ==
    IF n < 10 THEN Digit(n) ELSE DecimalString(n \div 10) \o Digit(n % 10)

\* The label with the tests of lines 384 and 386 in the other order.
cellStateBlankFirst(cell) ==
    IF ~cell.revealed THEN (IF cell.flagged THEN "flag" ELSE "hidden")
    ELSE IF cell.touchingMines = 0 THEN "blank"
    ELSE IF cell.hasMine THEN "black hole"
    ELSE DecimalString(cell.touchingMines)

\* The aria-label _updateButton computes from a cell.
cellState(cell) ==
    IF ~cell.revealed THEN (IF cell.flagged THEN "flag" ELSE "hidden")
    ELSE IF cell.hasMine THEN "black hole"
    ELSE IF cell.touchingMines = 0 THEN "blank"
    ELSE DecimalString(cell.touchingMines)

\* _updateButton without line 393: the stored cell stays as it was.
updateButtonKeepsCell(s, btn, cell, x, y) ==
    [s EXCEPT !.ariaLabel = (btn :> cellState(cell)) @@ @]

\* _updateButton on the widget state s: sets the label, overwrites the stored cell.
updateButton(s, btn, cell, x, y) ==
    [s EXCEPT !.ariaLabel = (btn :> cellState(cell)) @@ @,
              !.additionalButtonData =
                  [@ EXCEPT ![btn] = <<@[1], @[2], cell>>]]

\* One addEventListener registration: of a listener for events of a type on the
\* window, on the table, or on the button el.
listener(on, el, type) == [on |-> on, el |-> el, type |-> type]

\* The inner loop of _createTable with the coordinate of line 182 transposed.
createCellTransposed(t, row, col) ==
    LET y == col
        x == row
        button == Len(t.buttons) + 1
        t1 == [t EXCEPT
                 !.tabindex = (button :> (IF row = 0 /\ col = 0 THEN 0 ELSE -1)) @@ @,
                 !.currentTabableBtn = IF row = 0 /\ col = 0 THEN button ELSE @,
                 !.listeners = @ \cup {listener("button", button, "blur")},
                 !.additionalButtonData = (button :> <<x, y, defaultCell>>) @@ @]
        t2 == updateButton(t1, button, defaultCell, x, y)
    IN  [t2 EXCEPT !.buttons = Append(@, button)]

\* The body of the inner loop of _createTable for (row, col): the new button
\* is the next element created.
createCell(t, row, col) ==
    LET y == row
        x == col
        button == Len(t.buttons) + 1
        t1 == [t EXCEPT
                 !.tabindex = (button :> (IF row = 0 /\ col = 0 THEN 0 ELSE -1)) @@ @,
                 !.currentTabableBtn = IF row = 0 /\ col = 0 THEN button ELSE @,
                 !.listeners = @ \cup {listener("button", button, "blur")},
                 !.additionalButtonData = (button :> <<x, y, defaultCell>>) @@ @]
        t2 == updateButton(t1, button, defaultCell, x, y)
    IN  [t2 EXCEPT !.buttons = Append(@, button)]

\* The two nested loops of _createTable from (row, col) on: rows outside,
\* columns inside.
RECURSIVE createCells(_, _, _, _, _)
createCells(t, width, height, row, col) ==
    IF row >= height THEN t
    ELSE IF col >= width THEN createCells(t, width, height, row + 1, 0)
    ELSE CHOOSE done \in {createCells(t1, width, height, row, col + 1) :
                              t1 \in {createCell(t, row, col)}} : TRUE

\* _createTable on a new component: the table is built, nothing in it is
\* focused, nothing was sent to the renderer's focus or to the animator; the
\* table's listeners are registered after the loops.
createTable(width, height) ==
    LET t == createCells([buttons |-> <<>>,
                          additionalButtonData |-> <<>>,
                          currentTabableBtn |-> Body,
                          tabindex |-> <<>>,
                          ariaLabel |-> <<>>,
                          activeElement |-> Body,
                          rendererFocus |-> <<-1, -1>>,
                          listeners |-> {},
                          clicks |-> <<>>,
                          animatorCalls |-> <<>>],
                         width, height, 0, 0)
    IN  [t EXCEPT !.listeners =
            @ \cup {listener("table", Body, type) :
                       type \in {"keydown", "keyup", "mouseup", "mousedown", "contextmenu"}}
              \cup (IF cellFocus THEN {listener("table", Body, "mousemove")} ELSE {})]

\* props.gameChangeSubscribe(f) and props.gameChangeUnsubscribe(f) on the game
\* logic's set of subscribed callbacks.
gameChangeSubscribe(subs, f) == subs \cup {f}
gameChangeUnsubscribe(subs, f) == subs \ {f}

\* componentDidMount: builds the table, subscribes to the game logic, registers
\* the window's listeners.
componentDidMount ==
    LET t == createTable(Width, Height)
    IN  [table |-> [t EXCEPT !.listeners =
                       @ \cup {listener("window", Body, "resize"),
                               listener("window", Body, "keyup")}],
         subscribers |-> gameChangeSubscribe({}, "_doManualDomHandling"),
         teardownCalls |-> [rendererStop |-> 0, animatorStop |-> 0, putCanvas |-> 0]]

\* componentWillUnmount without line 98: the subscription is left in place.
componentWillUnmountStaysSubscribed(m) ==
    [m EXCEPT !.listeners = @ \ {listener("window", Body, "resize"),
                                 listener("window", Body, "keyup")},
              !.teardownCalls = [rendererStop |-> @.rendererStop + 1,
                                 animatorStop |-> @.animatorStop + 1,
                                 putCanvas |-> @.putCanvas + 1]]

\* componentWillUnmount on m, the listeners, subscribers and teardown calls
componentWillUnmount(m) ==
    [m EXCEPT !.listeners = @ \ {listener("window", Body, "resize"),
                                 listener("window", Body, "keyup")},
              !.subscribers = gameChangeUnsubscribe(@, "_doManualDomHandling"),
              !.teardownCalls = [rendererStop |-> @.rendererStop + 1,
                                 animatorStop |-> @.animatorStop + 1,
                                 putCanvas |-> @.putCanvas + 1]]

\* this._additionalButtonData.has(el)
has(s, el) == el \in DOMAIN s.additionalButtonData

\* removeFocusVisual: the blur listener of every button
removeFocusVisual(s) == [s EXCEPT !.rendererFocus = <<-1, -1>>]

\* setFocusVisual that gives the renderer the coordinate as (y, x).
setFocusVisualTransposed(s, button) ==
    [s EXCEPT !.rendererFocus =
        <<s.additionalButtonData[button][2], s.additionalButtonData[button][1]>>]

\* setFocusVisual
setFocusVisual(s, button) ==
    [s EXCEPT !.rendererFocus =
        <<s.additionalButtonData[button][1], s.additionalButtonData[button][2]>>]

\* The blur event the DOM dispatches on el: only buttons have a listener.
dispatchBlur(s, el) == IF has(s, el) THEN removeFocusVisual(s) ELSE s

\* el.blur(): when el is the focused element it loses focus to the body and
\* gets a blur event; otherwise nothing happens.
blur(s, el) ==
    IF s.activeElement = el /\ el # Body
    THEN dispatchBlur([s EXCEPT !.activeElement = Body], el)
    ELSE s

\* el.focus(): nothing when el is already focused; otherwise the element that
\* had focus gets its blur event and el becomes document.activeElement.
focus(s, el) ==
    IF s.activeElement = el THEN s
    ELSE [dispatchBlur(s, s.activeElement) EXCEPT !.activeElement = el]

\* setFocus without line 233: the previous target keeps tabindex 0.
setFocusKeepsOld(s, newFocusBtn) ==
    LET s1 == [s EXCEPT !.tabindex = [@ EXCEPT ![newFocusBtn] = 0],
                        !.currentTabableBtn = newFocusBtn]
        s2 == focus(s1, newFocusBtn)
    IN  setFocusVisual(s2, newFocusBtn)

\* setFocus with lines 237 and 238 exchanged: the indicator is set before the
\* focus moves, so the blur listener of the previous button clears it.
setFocusVisualFirst(s, newFocusBtn) ==
    LET s1 == [s EXCEPT !.tabindex =
                   [[@ EXCEPT ![s.currentTabableBtn] = -1] EXCEPT ![newFocusBtn] = 0],
                        !.currentTabableBtn = newFocusBtn]
        s2 == setFocusVisual(s1, newFocusBtn)
    IN  focus(s2, newFocusBtn)

\* setFocus
setFocus(s, newFocusBtn) ==
    LET s1 == [s EXCEPT !.tabindex =
                   [[@ EXCEPT ![s.currentTabableBtn] = -1] EXCEPT ![newFocusBtn] = 0],
                        !.currentTabableBtn = newFocusBtn]
        s2 == focus(s1, newFocusBtn)
    IN  setFocusVisual(s2, newFocusBtn)

\* moveFocusWithMouse that moves the indicator and nothing else.
moveFocusWithMouseVisualOnly(s, targetBtn) ==
    IF ~has(s, targetBtn) THEN removeFocusVisual(s)
    ELSE setFocusVisual(s, targetBtn)

\* moveFocusWithMouse that leaves the focus alone when another button has it.
moveFocusWithMouseKeepsActive(s, targetBtn) ==
    IF ~has(s, targetBtn) THEN removeFocusVisual(s)
    ELSE IF has(s, s.activeElement) /\ s.activeElement # targetBtn
         THEN setFocusVisual(s, targetBtn)
         ELSE setFocus(s, targetBtn)

\* moveFocusWithMouse: target is event.target
moveFocusWithMouse(s, targetBtn) ==
    IF ~has(s, targetBtn) THEN removeFocusVisual(s)
    ELSE LET activeBtn == s.activeElement
             s1 == IF has(s, activeBtn) /\ activeBtn # targetBtn
                   THEN blur(s, activeBtn) ELSE s
         IN  setFocus(s1, targetBtn)

\* moveFocusByKey with the index of line 291 computed as newY + newX * width.
moveFocusByKeySwapped(s, h, v) ==
    LET currentBtn == s.activeElement
        s1 == IF has(s, currentBtn) THEN s ELSE focus(s, s.currentTabableBtn)
        btnInfo == IF has(s, currentBtn) THEN s.additionalButtonData[currentBtn]
                   ELSE s.additionalButtonData[s.currentTabableBtn]
        newX == btnInfo[1] + h
        newY == btnInfo[2] + v
    IN  IF newX < 0 \/ newX >= Width \/ (newY < 0 \/ newY >= Height) THEN s1
        ELSE setFocus(s1, s.buttons[(newY + newX * Width) + 1])

\* moveFocusByKey with the bounds of line 287 tested as newX > width and
\* newY > height.
moveFocusByKeyOffByOne(s, h, v) ==
    LET currentBtn == s.activeElement
        s1 == IF has(s, currentBtn) THEN s ELSE focus(s, s.currentTabableBtn)
        btnInfo == IF has(s, currentBtn) THEN s.additionalButtonData[currentBtn]
                   ELSE s.additionalButtonData[s.currentTabableBtn]
        newX == btnInfo[1] + h
        newY == btnInfo[2] + v
        nextIndex == newX + newY * Width
    IN  IF newX < 0 \/ newX > Width \/ (newY < 0 \/ newY > Height) THEN s1
        ELSE IF nextIndex + 1 \in DOMAIN s.buttons
             THEN setFocus(s1, s.buttons[nextIndex + 1])
             ELSE s1

\* moveFocusByKey, for this.props.width and this.props.height
moveFocusByKey(s, h, v) ==
    LET currentBtn == s.activeElement
        s1 == IF has(s, currentBtn) THEN s ELSE focus(s, s.currentTabableBtn)
        btnInfo == IF has(s, currentBtn) THEN s.additionalButtonData[currentBtn]
                   ELSE s.additionalButtonData[s.currentTabableBtn]
        newX == btnInfo[1] + h
        newY == btnInfo[2] + v
    IN  IF newX < 0 \/ newX >= Width \/ (newY < 0 \/ newY >= Height) THEN s1
        ELSE setFocus(s1, s.buttons[(newX + newY * Width) + 1])

\* What WeakMap.get returns for an element the side-table does not hold.
undefined == <<>>

\* this._additionalButtonData.get(el)
get(s, el) == IF has(s, el) THEN s.additionalButtonData[el] ELSE undefined

\* simulateClick: one props.onCellClick(buttonData, alt) call
simulateClick(s, button, alt) ==
    [s EXCEPT !.clicks = Append(@, <<get(s, button), alt>>)]

\* _onKeyUp that repeats the step of the keydown of "9" instead of (0, 0).
onKeyUpMovesAgain(s, key) ==
    IF cellFocus /\ key \in {"9", "7", "5", "0"} THEN moveFocusByKey(s, 1, 0) ELSE s

\* _onKeyUp, the window's keyup listener
onKeyUp(s, key) ==
    IF cellFocus /\ key \in {"9", "7", "5", "0"} THEN moveFocusByKey(s, 0, 0) ELSE s

\* onKeyUpOnTable, the table's keyup listener
onKeyUpOnTable(s, key) ==
    IF key = "Tab" THEN moveFocusByKey(s, 0, 0) ELSE s

\* Whether onKeyUpOnTable stops the event (moveFocusByKey calls stopPropagation).
keyUpStoppedOnTable(key) == key = "Tab"

\* onKeyDownOnTable, the table's keydown listener
onKeyDownOnTable(s, key) ==
    IF key = "Enter" \/ key = "8" THEN simulateClick(s, s.activeElement, FALSE)
    ELSE IF key = "ArrowRight" \/ key = "9" THEN moveFocusByKey(s, 1, 0)
    ELSE IF key = "ArrowLeft" \/ key = "7" THEN moveFocusByKey(s, -1, 0)
    ELSE IF key = "ArrowUp" \/ key = "5" THEN moveFocusByKey(s, 0, -1)
    ELSE IF key = "ArrowDown" \/ key = "0" THEN moveFocusByKey(s, 0, 1)
    ELSE s

\* onMouseUp that always focuses and activates the button under the pointer.
onMouseUpActivatesTarget(s, targetButton, button) ==
    IF ~has(s, targetButton) THEN s
    ELSE simulateClick(IF cellFocus THEN setFocus(s, targetButton) ELSE s,
                       targetButton, button = 2)

\* onMouseUp whose hit test of line 334 falls back to the focused button.
onMouseUpMissActivatesFocused(s, targetButton, button) ==
    IF ~has(s, targetButton)
    THEN IF has(s, s.activeElement)
         THEN simulateClick(s, s.activeElement, button = 2) ELSE s
    ELSE LET activeButton == s.activeElement
             focused == cellFocus /\ has(s, activeButton)
             s1 == IF cellFocus /\ ~has(s, activeButton)
                   THEN setFocus(s, targetButton) ELSE s
             clicked == IF focused THEN activeButton ELSE targetButton
         IN  simulateClick(s1, clicked, button = 2)

\* onMouseUp: targetButton is event.target, button is event.button
onMouseUp(s, targetButton, button) ==
    IF ~has(s, targetButton) THEN s
    ELSE LET activeButton == s.activeElement
             focused == cellFocus /\ has(s, activeButton)
             s1 == IF cellFocus /\ ~has(s, activeButton)
                   THEN setFocus(s, targetButton) ELSE s
             clicked == IF focused THEN activeButton ELSE targetButton
         IN  simulateClick(s1, clicked, button = 2)

\* onMouseDown without line 366: the default action of the mousedown takes
\* place, and the platform gives focus to the element under the pointer.
onMouseDownDefault(s, target) == focus(s, target)

\* onMouseDown only calls event.preventDefault(): the platform does not move
\* the focus to target, the element under the pointer.
onMouseDown(s, target) == s

\* The loop of _doManualDomHandling run from the last delta to the first.
RECURSIVE updateButtonsReversed(_, _, _)
updateButtonsReversed(s, gridChanges, i) ==
    IF i > Len(gridChanges) THEN s
    ELSE LET j == Len(gridChanges) - i + 1
             x == gridChanges[j][1]
             y == gridChanges[j][2]
             cell == gridChanges[j][3]
             btn == s.buttons[(y * Width + x) + 1]
         IN  updateButtonsReversed(updateButton(s, btn, cell, x, y), gridChanges, i + 1)

\* The for-of loop of _doManualDomHandling from the i-th delta on.
RECURSIVE updateButtons(_, _, _)
updateButtons(s, gridChanges, i) ==
    IF i > Len(gridChanges) THEN s
    ELSE LET x == gridChanges[i][1]
             y == gridChanges[i][2]
             cell == gridChanges[i][3]
             btn == s.buttons[(y * Width + x) + 1]
         IN  updateButtons(updateButton(s, btn, cell, x, y), gridChanges, i + 1)

\* props.animator.updateCells(cells): the call is recorded with the labels and
\* stored cells the buttons have at the moment of the call.
updateCells(s, cells) ==
    [s EXCEPT !.animatorCalls =
        Append(@, [cells |-> cells,
                   ariaLabel |-> s.ariaLabel,
                   additionalButtonData |-> s.additionalButtonData])]

\* _doManualDomHandling with line 152 before the loop of lines 148 to 151.
doManualDomHandlingAnimatorFirst(s, stateChange) ==
    IF ~stateChange.present THEN s
    ELSE updateButtons(updateCells(s, stateChange.gridChanges),
                       stateChange.gridChanges, 1)

\* _doManualDomHandling that also returns at line 144 for an empty array.
doManualDomHandlingSkipEmpty(s, stateChange) ==
    IF ~stateChange.present \/ Len(stateChange.gridChanges) = 0 THEN s
    ELSE updateCells(updateButtons(s, stateChange.gridChanges, 1),
                     stateChange.gridChanges)

\* _doManualDomHandling: a notification without gridChanges has present = FALSE
doManualDomHandling(s, stateChange) ==
    IF ~stateChange.present THEN s
    ELSE updateCells(updateButtons(s, stateChange.gridChanges, 1),
                     stateChange.gridChanges)

\* The button created for column x of row y.
ButtonAt(x, y) == (y * Width + x) + 1

\* The buttons of the grid and the elements an event can name as its target.
Buttons == 1 .. (Width * Height)
Targets == Buttons \cup {Body}

\* The elements a mousedown is modelled over: a button and a non-button.
PressTargets == {(2 * Width + 2) + 1, Body}

\* The relative steps moveFocusByKey is called with.
Steps == {-1, 0, 1}

\* event.key of the keyboard events
Keys == {"Enter", "8", "ArrowRight", "9", "ArrowLeft", "7", "ArrowUp", "5",
         "ArrowDown", "0", "Tab", "a"}

\* event.button of the mouse events: primary, secondary
MouseButtons == {0, 2}

\* Cells the game logic delivers: one for each aria-label, each chosen so that
\* an earlier row of the label table has to win over a later one.
HiddenMine ==
    [flagged |-> FALSE, hasMine |-> TRUE, revealed |-> FALSE,
     touchingFlags |-> 0, touchingMines |-> 2]
Flagged ==
    [flagged |-> TRUE, hasMine |-> TRUE, revealed |-> FALSE,
     touchingFlags |-> 1, touchingMines |-> 0]
RevealedMine ==
    [flagged |-> FALSE, hasMine |-> TRUE, revealed |-> TRUE,
     touchingFlags |-> 0, touchingMines |-> 0]
RevealedBlank ==
    [flagged |-> FALSE, hasMine |-> FALSE, revealed |-> TRUE,
     touchingFlags |-> 1, touchingMines |-> 0]
RevealedThree ==
    [flagged |-> FALSE, hasMine |-> FALSE, revealed |-> TRUE,
     touchingFlags |-> 0, touchingMines |-> 3]
Cells == {HiddenMine, Flagged, RevealedMine, RevealedBlank, RevealedThree}

\* The coordinates the modelled game logic sends deltas for.
DeltaTargets == {<<1, 1>>, <<2, 3>>}

Deltas(cells) == {<<p[1], p[2], c>> : p \in DeltaTargets, c \in cells}

\* The cells of the notifications that carry more than one delta.
BatchCells == {Flagged, RevealedThree}

RECURSIVE SeqsUpTo(_, _)
SeqsUpTo(S, n) ==
    IF n = 0 THEN {<<>>}
    ELSE LET shorter == SeqsUpTo(S, n - 1)
         IN  shorter \cup {Append(q, e) : q \in shorter, e \in S}

\* StateChange objects: gridChanges absent, or an array of one delta with any
\* of the cells, or an array of up to MaxBatchLen deltas.
noGridChanges == [present |-> FALSE, gridChanges |-> <<>>]
StateChanges ==
    {noGridChanges} \cup
    {[present |-> TRUE, gridChanges |-> g] :
        g \in SeqsUpTo(Deltas(Cells), 1) \cup SeqsUpTo(Deltas(BatchCells), MaxBatchLen)}

\* The few notifications that arrive between the input events of Spec.
InputStateChanges ==
    {noGridChanges,
     [present |-> TRUE, gridChanges |-> <<>>],
     [present |-> TRUE, gridChanges |-> << <<2, 3, RevealedThree>> >>]}

\* Event sequences from the initial state that the run variable follows: the
\* walk to the right edge and beyond, a hover and release over (2, 2) with the
\* focus on (0, 0), a step left while nothing in the grid has focus, and
\* setFocus called twice for (2, 3).
RightMoves(n) == [i \in 1 .. n |-> [op |-> "moveFocusByKey", h |-> 1, v |-> 0]]
HoverRelease ==
    << [op |-> "tabIn", target |-> ButtonAt(0, 0)],
       [op |-> "mousemove", target |-> ButtonAt(2, 2)],
       [op |-> "mouseup", target |-> ButtonAt(2, 2), button |-> 0] >>
LeftFromOutside == << [op |-> "moveFocusByKey", h |-> -1, v |-> 0] >>
SetFocusTwice ==
    << [op |-> "tabIn", target |-> ButtonAt(0, 0)],
       [op |-> "setFocus", target |-> ButtonAt(2, 3)],
       [op |-> "setFocus", target |-> ButtonAt(2, 3)] >>
\* A secondary mouseup over (2, 3) with the focus on (0, 0); one after a
\* notification for (2, 3) with nothing focused; a mouseup outside the buttons;
\* a press of "9" with the focus on (0, 0).
FocusedRelease ==
    << [op |-> "tabIn", target |-> ButtonAt(0, 0)],
       [op |-> "mouseup", target |-> ButtonAt(2, 3), button |-> 2] >>
SecondaryAfterSync ==
    << [op |-> "stateChange",
        stateChange |-> [present |-> TRUE, gridChanges |-> << <<2, 3, RevealedThree>> >>]],
       [op |-> "mouseup", target |-> ButtonAt(2, 3), button |-> 2] >>
ReleaseOutside ==
    << [op |-> "tabIn", target |-> ButtonAt(0, 0)],
       [op |-> "mouseup", target |-> Body, button |-> 0] >>
PressNine ==
    << [op |-> "tabIn", target |-> ButtonAt(0, 0)],
       [op |-> "keydown", key |-> "9"],
       [op |-> "keyup", key |-> "9"] >>
Scenarios == {RightMoves(MaxRightMoves), HoverRelease, LeftFromOutside, SetFocusTwice,
              FocusedRelease, SecondaryAfterSync, ReleaseOutside, PressNine}

offScenario == << [op |-> "off"] >>

IsPrefix(q, sc) ==
    /\ Len(q) <= Len(sc)
    /\ \A i \in 1 .. Len(q) : q[i] = sc[i]

\* The widget's state as the handlers take it: no collaborator was called yet
\* by the event that is about to be handled.
Self ==
    [buttons |-> buttons,
     additionalButtonData |-> additionalButtonData,
     currentTabableBtn |-> currentTabableBtn,
     tabindex |-> tabindex,
     ariaLabel |-> ariaLabel,
     activeElement |-> activeElement,
     rendererFocus |-> rendererFocus,
     clicks |-> <<>>,
     animatorCalls |-> <<>>]

\* The event ev was handled and left the widget in state s.
Handled(s, ev) ==
    /\ buttons' = s.buttons
    /\ additionalButtonData' = s.additionalButtonData
    /\ currentTabableBtn' = s.currentTabableBtn
    /\ tabindex' = s.tabindex
    /\ ariaLabel' = s.ariaLabel
    /\ activeElement' = s.activeElement
    /\ rendererFocus' = s.rendererFocus
    /\ clicks' = s.clicks
    /\ animatorCalls' = s.animatorCalls
    /\ UNCHANGED <<cellFocus, listeners, subscribers, teardownCalls, inDocument>>
    /\ last' = IF ev.op = "stateChange" THEN ev ELSE [op |-> ev.op]
    /\ run' = IF run # offScenario /\ \E sc \in Scenarios : IsPrefix(Append(run, ev), sc)
              THEN Append(run, ev)
              ELSE offScenario

\* The component is mounted, on a device of either class.
Init ==
    /\ cellFocus \in BOOLEAN
    /\ LET m == componentDidMount
           t == m.table
       IN  /\ buttons = t.buttons
           /\ additionalButtonData = t.additionalButtonData
           /\ currentTabableBtn = t.currentTabableBtn
           /\ tabindex = t.tabindex
           /\ ariaLabel = t.ariaLabel
           /\ activeElement = t.activeElement
           /\ rendererFocus = t.rendererFocus
           /\ clicks = t.clicks
           /\ animatorCalls = t.animatorCalls
           /\ listeners = t.listeners
           /\ subscribers = m.subscribers
           /\ teardownCalls = m.teardownCalls
    /\ inDocument = TRUE
    /\ last = [op |-> "componentDidMount"]
    /\ run = <<>>

\* A listener for events of a type is registered on the window or the table.
listens(on, type) == listener(on, Body, type) \in listeners

\* FocusController.setFocus(target)
SetFocus(b) ==
    /\ inDocument
    /\ Handled(setFocus(Self, b), [op |-> "setFocus", target |-> b])

\* FocusController.moveFocusBy(dx, dy)
MoveFocusBy(h, v) ==
    /\ inDocument
    /\ Handled(moveFocusByKey(Self, h, v), [op |-> "moveFocusByKey", h |-> h, v |-> v])

\* A keydown that reaches the table's listener: one of the focused button, or
\* one dispatched on the table while the focus is elsewhere.  Tab is not
\* handled there, and its default action takes focus to the next tabbable
\* element, which is outside the grid because one button only has tabindex 0.
KeyDown(key) ==
    /\ inDocument
    /\ listens("table", "keydown")
    /\ LET s == onKeyDownOnTable(Self, key)
       IN  Handled(IF key = "Tab" THEN focus(s, Body) ELSE s,
                   [op |-> "keydown", key |-> key])

\* A keyup: with a button focused it goes to the table's listener and, unless
\* stopped there, on to the window's; with focus elsewhere to the window's only.
KeyUp(key) ==
    LET atTable == inDocument /\ has(Self, activeElement) /\ listens("table", "keyup")
        s1 == IF atTable THEN onKeyUpOnTable(Self, key) ELSE Self
        s == IF listens("window", "keyup") /\ ~(atTable /\ keyUpStoppedOnTable(key))
             THEN onKeyUp(s1, key) ELSE s1
    IN  Handled(s, [op |-> "keyup", key |-> key])

\* Sequential navigation comes into the grid from outside: the platform focuses
\* the button that has tabindex 0.
TabIntoGrid ==
    /\ inDocument
    /\ ~has(Self, activeElement)
    /\ \E b \in Buttons :
          /\ tabindex[b] = 0
          /\ Handled(focus(Self, b), [op |-> "tabIn", target |-> b])

\* The platform takes focus away from the focused button.
FocusOut ==
    /\ inDocument
    /\ has(Self, activeElement)
    /\ Handled(focus(Self, Body), [op |-> "focusOut"])

\* mousemove on the table: the listener exists only on a constrained device
MouseMove(target) ==
    /\ inDocument
    /\ listens("table", "mousemove")
    /\ Handled(moveFocusWithMouse(Self, target), [op |-> "mousemove", target |-> target])

\* mousedown on the table, over target
MouseDown(target) ==
    /\ inDocument
    /\ listens("table", "mousedown")
    /\ Handled(onMouseDown(Self, target), [op |-> "mousedown", target |-> target])

\* mouseup on the table, over target
MouseUp(target, button) ==
    /\ inDocument
    /\ listens("table", "mouseup")
    /\ Handled(onMouseUp(Self, target, button),
               [op |-> "mouseup", target |-> target, button |-> button])

\* The game logic pushes one notification to the callbacks subscribed to it.
StateChange(stateChange) ==
    Handled(IF "_doManualDomHandling" \in subscribers
            THEN doManualDomHandling(Self, stateChange) ELSE Self,
            [op |-> "stateChange", stateChange |-> stateChange])

\* The component is unmounted: componentWillUnmount runs, then the framework
\* takes the component's DOM out of the document.  A focused button loses the
\* focus with it, and the platform may or may not send it a blur event.
Unmount ==
    /\ inDocument
    /\ LET m == componentWillUnmount([listeners |-> listeners,
                                      subscribers |-> subscribers,
                                      teardownCalls |-> teardownCalls])
       IN  /\ listeners' = m.listeners
           /\ subscribers' = m.subscribers
           /\ teardownCalls' = m.teardownCalls
    /\ inDocument' = FALSE
    /\ activeElement' = Body
    /\ \E blurred \in BOOLEAN :
          rendererFocus' = IF blurred /\ has(Self, activeElement)
                           THEN removeFocusVisual(Self).rendererFocus
                           ELSE rendererFocus
    /\ clicks' = <<>>
    /\ animatorCalls' = <<>>
    /\ last' = [op |-> "componentWillUnmount"]
    /\ run' = offScenario
    /\ UNCHANGED <<buttons, additionalButtonData, currentTabableBtn, tabindex,
                   ariaLabel, cellFocus>>

Next ==
    \/ \E b \in Buttons : SetFocus(b)
    \/ \E h \in Steps, v \in Steps : MoveFocusBy(h, v)
    \/ \E key \in Keys : KeyDown(key)
    \/ \E key \in Keys : KeyUp(key)
    \/ TabIntoGrid
    \/ FocusOut
    \/ \E target \in Targets : MouseMove(target)
    \/ \E target \in PressTargets : MouseDown(target)
    \/ \E target \in Targets, button \in MouseButtons : MouseUp(target, button)
    \/ \E stateChange \in InputStateChanges : StateChange(stateChange)
    \/ Unmount

Spec == Init /\ [][Next]_vars

\* The synchronisation alone: every notification the game logic can push.
NextSync == \E stateChange \in StateChanges : StateChange(stateChange)

SpecSync == Init /\ [][NextSync]_vars

(***************************************************************************)
(* The claims.                                                             *)
(***************************************************************************)

\* The coordinate the side-table holds for a button, and the button of a
\* coordinate.
CoordOf(b) == <<additionalButtonData[b][1], additionalButtonData[b][2]>>
ElementAt(x, y) == CHOOSE b \in DOMAIN additionalButtonData : CoordOf(b) = <<x, y>>

\* The buttons marked keyboard-reachable.
Tabable == {b \in DOMAIN tabindex : tabindex[b] = 0}

InGrid(x, y) == 0 <= x /\ x < Width /\ 0 <= y /\ y < Height

\* The button moveFocusBy starts from: the focused one, else the roving target.
StartBtn == IF activeElement \in Buttons THEN activeElement ELSE currentTabableBtn

\* The coordinate a moveFocusBy(h, v) of this state computes, as a set of one.
MoveTarget(h, v) == {<<CoordOf(StartBtn)[1] + h, CoordOf(StartBtn)[2] + v>>}

\* Focus is on the button of coordinate (x, y) in every respect.
FocusIsAt(x, y) ==
    /\ InGrid(x, y)
    /\ currentTabableBtn = ElementAt(x, y)
    /\ Tabable = {ElementAt(x, y)}
    /\ activeElement = ElementAt(x, y)
    /\ rendererFocus = <<x, y>>

\* C1: in every reachable state exactly one button has tabindex 0 and every
\* other button has tabindex -1; in the state after construction that button is
\* the one of coordinate (0, 0).
C1_OneTabable ==
    /\ DOMAIN tabindex = Buttons
    /\ Cardinality(Tabable) = 1
    /\ \A b \in Buttons : tabindex[b] \in {0, -1}
    /\ (last.op = "componentDidMount" => Tabable = {ElementAt(0, 0)})

\* C1 witness: after a focus change that ran the blur listener inside setFocus
\* (the indicator is set again after it), the reachable button is another one.
C1_Witness ==
    /\ run = SubSeq(SetFocusTwice, 1, 2)
    /\ Tabable = {ElementAt(2, 3)}
    /\ tabindex[ElementAt(0, 0)] = -1
    /\ rendererFocus = <<2, 3>>

\* C2: a moveFocusBy(h, v) whose target (x+h, y+v), counted from the focused
\* button or else from the roving target, is inside the grid leaves the button
\* of that coordinate as roving target, as the only button with tabindex 0, as
\* document.activeElement and as the renderer's focus; and n <= 4 calls
\* moveFocusBy(1, 0) from the initial state of a grid 5 wide end on (n, 0).
C2_MoveInside ==
    [][ /\ last'.op = "moveFocusByKey" =>
             \A h \in Steps, v \in Steps : \A p \in MoveTarget(h, v) :
                (InGrid(p[1], p[2]) /\ MoveFocusBy(h, v)) => FocusIsAt(p[1], p[2])'
        /\ run' # offScenario =>
             \A n \in 1 .. MaxRightMoves :
                (run' = RightMoves(n) /\ n < Width) => FocusIsAt(n, 0)'
      ]_vars

\* C2 witness: the fourth step right from the initial state ended on (4, 0).
C2_Witness ==
    /\ run = RightMoves(4)
    /\ last.op = "moveFocusByKey"
    /\ FocusIsAt(4, 0)

\* C3 as stated: a moveFocusBy(h, v) whose target is outside the grid changes
\* neither the roving target, nor the tabindex marks, nor document.activeElement,
\* nor the renderer's focus.
C3_Original ==
    [][ last'.op = "moveFocusByKey" =>
          \A h \in Steps, v \in Steps : \A p \in MoveTarget(h, v) :
             (~InGrid(p[1], p[2]) /\ MoveFocusBy(h, v)) =>
                 UNCHANGED <<currentTabableBtn, tabindex, activeElement, rendererFocus>>
      ]_vars

\* C3 as amended: a moveFocusBy(h, v) whose target is outside the grid changes
\* neither the roving target, nor the tabindex marks, nor the renderer's focus;
\* document.activeElement stays when it is a button of the grid, and otherwise
\* becomes the roving target.  The calls moveFocusBy(1, 0) made on (4, 0) of a
\* grid 5 wide leave the focus on (4, 0).
C3_MoveOutside ==
    [][ /\ last'.op = "moveFocusByKey" =>
             \A h \in Steps, v \in Steps : \A p \in MoveTarget(h, v) :
                (~InGrid(p[1], p[2]) /\ MoveFocusBy(h, v)) =>
                    /\ UNCHANGED <<currentTabableBtn, tabindex, rendererFocus>>
                    /\ activeElement' = StartBtn
        /\ run' # offScenario =>
             \A n \in 1 .. MaxRightMoves :
                (run' = RightMoves(n) /\ n >= Width) => FocusIsAt(Width - 1, 0)'
      ]_vars

\* C3 witness: a step left from (0, 0) while nothing in the grid had focus: the
\* roving target and the (cleared) indicator are as before, the focus is on it.
C3_Witness ==
    /\ run = LeftFromOutside
    /\ currentTabableBtn = ElementAt(0, 0)
    /\ Tabable = {ElementAt(0, 0)}
    /\ rendererFocus = <<-1, -1>>
    /\ activeElement = ElementAt(0, 0)

\* C4: setFocus(t) called right after setFocus(t) changes neither the roving
\* target, nor the tabindex marks, nor document.activeElement, nor the
\* renderer's focus (after setFocus(t) the roving target is t).
C4_SetFocusIdempotent ==
    [][ (last.op = "setFocus" /\ last'.op = "setFocus" /\ SetFocus(currentTabableBtn)) =>
            UNCHANGED <<currentTabableBtn, tabindex, activeElement, rendererFocus>>
      ]_vars

\* C4 witness: setFocus was called twice for (2, 3) while (0, 0) had focus.
C4_Witness ==
    /\ run = SetFocusTwice
    /\ last.op = "setFocus"
    /\ FocusIsAt(2, 3)

\* The label table of the specification.
DecimalOf(n) == <<"1", "2", "3", "4", "5", "6", "7", "8">>[n]
TableLabel(cell) ==
    CASE ~cell.revealed /\ cell.flagged -> "flag"
      [] ~cell.revealed /\ ~cell.flagged -> "hidden"
      [] cell.revealed /\ cell.hasMine -> "black hole"
      [] cell.revealed /\ ~cell.hasMine /\ cell.touchingMines = 0 -> "blank"
      [] OTHER -> DecimalOf(cell.touchingMines)

\* The deltas of the last notification, and whether its i-th delta is the last
\* one it holds for that coordinate.
LastChanges == IF last.op = "stateChange" THEN last.stateChange.gridChanges ELSE <<>>
IsLastFor(g, i) ==
    \A j \in (i + 1) .. Len(g) : <<g[j][1], g[j][2]>> # <<g[i][1], g[i][2]>>

\* C5: after a notification, the aria-label of the button of every delta's
\* coordinate is the table's label for the cell delivered (last) for it; the
\* buttons of coordinates no delta is ever sent for, and all buttons after
\* construction, have the label "hidden".
C5_LabelTable ==
    /\ \A i \in 1 .. Len(LastChanges) :
          IsLastFor(LastChanges, i) =>
              ariaLabel[ElementAt(LastChanges[i][1], LastChanges[i][2])]
                  = TableLabel(LastChanges[i][3])
    /\ \A b \in Buttons : CoordOf(b) \notin DeltaTargets => ariaLabel[b] = "hidden"
    /\ last.op = "componentDidMount" => \A b \in Buttons : ariaLabel[b] = "hidden"

\* C5 witness: a notification delivered a revealed mine that touches no mine
\* for (1, 1), after one that delivered a revealed 3 for (2, 3).
C5_Witness ==
    /\ last.op = "stateChange"
    /\ LastChanges = << <<1, 1, RevealedMine>> >>
    /\ ariaLabel[ElementAt(1, 1)] = "black hole"
    /\ ariaLabel[ElementAt(2, 3)] = "3"
    /\ ariaLabel[ElementAt(0, 0)] = "hidden"

\* C6: a notification that carries deltas makes exactly one animator call, with
\* the array it carried, and at the moment of that call every button named in
\* it already has the label and the stored cell of its (last) delta.
C6_AnimatorAfterButtons ==
    (last.op = "stateChange" /\ Len(LastChanges) > 0) =>
        /\ Len(animatorCalls) = 1
        /\ animatorCalls[1].cells = LastChanges
        /\ \A i \in 1 .. Len(LastChanges) :
              IsLastFor(LastChanges, i) =>
                  LET b == ElementAt(LastChanges[i][1], LastChanges[i][2])
                  IN  /\ animatorCalls[1].ariaLabel[b] = TableLabel(LastChanges[i][3])
                      /\ animatorCalls[1].additionalButtonData[b][3] = LastChanges[i][3]

\* C6 witness: a notification with two deltas was forwarded in one call.
C6_Witness ==
    /\ last.op = "stateChange"
    /\ LastChanges = << <<2, 3, Flagged>>, <<1, 1, RevealedThree>> >>
    /\ Len(animatorCalls) = 1
    /\ animatorCalls[1].ariaLabel[ElementAt(2, 3)] = "flag"
    /\ animatorCalls[1].ariaLabel[ElementAt(1, 1)] = "3"

\* C7 as stated: a notification without gridChanges, or with an empty one,
\* changes no label and no stored cell and makes no animator call.
C7_Original ==
    [][ (last'.op = "stateChange" /\ Len(last'.stateChange.gridChanges) = 0) =>
            /\ UNCHANGED <<ariaLabel, additionalButtonData>>
            /\ animatorCalls' = <<>>
      ]_vars

\* C7 as amended: a notification without gridChanges, or with an empty one,
\* changes no label, no stored cell and nothing of the focus; without
\* gridChanges it makes no animator call, with an empty gridChanges it makes
\* one animator call, with the empty array.
C7_NoDeltas ==
    [][ (last'.op = "stateChange" /\ Len(last'.stateChange.gridChanges) = 0) =>
            /\ UNCHANGED <<ariaLabel, additionalButtonData, buttons, currentTabableBtn,
                           tabindex, activeElement, rendererFocus>>
            /\ clicks' = <<>>
            /\ ~last'.stateChange.present => animatorCalls' = <<>>
            /\ last'.stateChange.present =>
                   /\ Len(animatorCalls') = 1
                   /\ animatorCalls'[1].cells = <<>>
      ]_vars

\* C7 witness: an empty gridChanges arrived after a delta had changed (1, 1),
\* and the animator was called once.
C7_Witness ==
    /\ last.op = "stateChange"
    /\ last.stateChange.present
    /\ LastChanges = <<>>
    /\ Len(animatorCalls) = 1
    /\ ariaLabel[ElementAt(1, 1)] = "3"

\* The largest element of a non-empty set of numbers.
Largest(S) == CHOOSE i \in S : \A j \in S : j <= i

\* C8: every button starts with the neutral cell and the label "hidden", and a
\* notification gives every button named in it the cell of the last delta that
\* names it, with that cell's label, and leaves every other button's stored
\* cell, coordinate and label as they were.
C8_LastWriteWins ==
    /\ \A b \in Buttons :
          additionalButtonData[b][3] = defaultCell /\ ariaLabel[b] = "hidden"
    /\ [][ last'.op = "stateChange" =>
             \A b \in Buttons :
                LET g == last'.stateChange.gridChanges
                    named == {i \in 1 .. Len(g) : <<g[i][1], g[i][2]>> = CoordOf(b)}
                IN  IF named = {}
                    THEN /\ additionalButtonData'[b] = additionalButtonData[b]
                         /\ ariaLabel'[b] = ariaLabel[b]
                    ELSE /\ additionalButtonData'[b] =
                                <<CoordOf(b)[1], CoordOf(b)[2], g[Largest(named)][3]>>
                         /\ ariaLabel'[b] = TableLabel(g[Largest(named)][3])
         ]_vars

\* C8 witness: one notification named (1, 1) twice, and an earlier one had
\* changed (2, 3).
C8_Witness ==
    /\ last.op = "stateChange"
    /\ LastChanges = << <<1, 1, Flagged>>, <<1, 1, RevealedThree>> >>
    /\ additionalButtonData[ElementAt(1, 1)][3] = RevealedThree
    /\ ariaLabel[ElementAt(1, 1)] = "3"
    /\ additionalButtonData[ElementAt(2, 3)][3] = RevealedMine

\* C9 as stated: a mousemove over a button sets the renderer's focus to its
\* coordinate and changes neither document.activeElement, nor the roving
\* target, nor the tabindex marks; one over anything else clears the renderer's
\* focus and changes none of them either.
C9_Original ==
    [][ last'.op = "mousemove" =>
          \A target \in Targets :
             MouseMove(target) =>
                 /\ rendererFocus' =
                        IF target \in Buttons THEN CoordOf(target) ELSE <<-1, -1>>
                 /\ UNCHANGED <<activeElement, currentTabableBtn, tabindex>>
      ]_vars

\* C9 as amended: a mousemove over a button sets the renderer's focus to its
\* coordinate and makes that button document.activeElement, the roving target
\* and the only button with tabindex 0; one over anything else clears the
\* renderer's focus and changes none of them.
C9_HoverMovesFocus ==
    [][ last'.op = "mousemove" =>
          \A target \in Targets :
             MouseMove(target) =>
                 IF target \in Buttons
                 THEN /\ rendererFocus' = CoordOf(target)
                      /\ activeElement' = target
                      /\ currentTabableBtn' = target
                      /\ Tabable' = {target}
                 ELSE /\ rendererFocus' = <<-1, -1>>
                      /\ UNCHANGED <<activeElement, currentTabableBtn, tabindex>>
      ]_vars

\* C9 witness: the pointer moved over (2, 2) while (0, 0) had the focus.
C9_Witness ==
    /\ run = SubSeq(HoverRelease, 1, 2)
    /\ last.op = "mousemove"
    /\ cellFocus
    /\ FocusIsAt(2, 2)

\* C10 as stated: with the focus on (0, 0), a mousemove over (2, 2) and then a
\* mouseup of the primary button on (2, 2) make one onCellClick call, for (0, 0).
C10_Original ==
    run = HoverRelease => clicks = << <<<<0, 0, defaultCell>>, FALSE>> >>

\* C10 as amended: with the focus on (0, 0), a mousemove over (2, 2) and then a
\* mouseup of the primary button on (2, 2) make one onCellClick call, for (2, 2),
\* the button the mousemove gave the focus to.
C10_HoverThenRelease ==
    run = HoverRelease =>
        /\ cellFocus
        /\ clicks = << <<<<2, 2, defaultCell>>, FALSE>> >>
        /\ activeElement = ElementAt(2, 2)

\* C10 witness: the three events were handled and (2, 2) was activated.
C10_Witness ==
    /\ run = HoverRelease
    /\ last.op = "mouseup"
    /\ Len(clicks) = 1
    /\ clicks[1][1][1] = 2
    /\ clicks[1][1][2] = 2

\* The focus variables: roving target, tabindex marks, platform focus, indicator.
focusState == <<currentTabableBtn, tabindex, activeElement, rendererFocus>>

\* C11: on a constrained device a mouseup over the button e, in any reachable
\* state of the mounted widget, makes exactly one onCellClick call; when no
\* button has the platform focus, e becomes roving target, only tabindex-0
\* button, document.activeElement and renderer focus, and the call is for e;
\* when a button f has it, the call is for f (so not for e when f is another
\* button) and nothing of the focus changes.
C11_PointerUpConstrained ==
    (cellFocus /\ inDocument) =>
        \A e \in Buttons, button \in MouseButtons :
           LET s == onMouseUp(Self, e, button)
           IN  IF activeElement \in Buttons
               THEN /\ s.clicks = << <<additionalButtonData[activeElement], button = 2>> >>
                    /\ s.currentTabableBtn = currentTabableBtn
                    /\ s.tabindex = tabindex
                    /\ s.activeElement = activeElement
                    /\ s.rendererFocus = rendererFocus
               ELSE /\ s.clicks = << <<additionalButtonData[e], button = 2>> >>
                    /\ s.currentTabableBtn = e
                    /\ {b \in DOMAIN s.tabindex : s.tabindex[b] = 0} = {e}
                    /\ s.activeElement = e
                    /\ s.rendererFocus = CoordOf(e)

\* C11 witness: on a constrained device the secondary button was released over
\* (2, 3) while (0, 0) had the focus: (0, 0) was activated, the focus stayed.
C11_Witness ==
    /\ run = FocusedRelease
    /\ cellFocus
    /\ clicks = << <<<<0, 0, defaultCell>>, TRUE>> >>
    /\ activeElement = ElementAt(0, 0)
    /\ currentTabableBtn = ElementAt(0, 0)

\* The button a mouseup over e activates: the focused one on a constrained
\* device, else e.
Activated(e) == IF cellFocus /\ activeElement \in Buttons THEN activeElement ELSE e

\* C12: the onCellClick call of a mouseup passes the activated button's
\* coordinate and stored cell, with alt = TRUE for the secondary button and
\* FALSE for another one; the call of Enter or "8" on a focused button passes
\* that button's coordinate and stored cell with alt = FALSE.  The stored cell
\* is the cell of the last delta for the button, else the neutral one: after a
\* notification delivered a revealed 3 for (2, 3), a secondary mouseup over it
\* calls onCellClick([2, 3, that cell], true).
C12_ActivationArguments ==
    /\ \A b \in Buttons :
          CoordOf(b) \notin DeltaTargets => additionalButtonData[b][3] = defaultCell
    /\ run = SecondaryAfterSync => clicks = << <<<<2, 3, RevealedThree>>, TRUE>> >>
    /\ inDocument =>
          /\ \A e \in Buttons, button \in MouseButtons :
                onMouseUp(Self, e, button).clicks =
                    << << <<CoordOf(Activated(e))[1], CoordOf(Activated(e))[2],
                            additionalButtonData[Activated(e)][3]>>,
                          button = 2 >> >>
          /\ \A key \in {"Enter", "8"} :
                activeElement \in Buttons =>
                    onKeyDownOnTable(Self, key).clicks =
                        << <<additionalButtonData[activeElement], FALSE>> >>

\* C12 witness: the secondary mouseup over (2, 3) after the notification.
C12_Witness ==
    /\ run = SecondaryAfterSync
    /\ last.op = "mouseup"
    /\ Len(clicks) = 1
    /\ clicks[1][1][3] = RevealedThree
    /\ clicks[1][2] = TRUE

\* C13 as stated: a keydown of Enter or "8" makes one onCellClick call, for the
\* focused button, when a button of the grid has the platform focus, and
\* otherwise makes no call and changes nothing of the focus.
C13_Original ==
    [][ last'.op = "keydown" =>
          \A key \in {"Enter", "8"} :
             KeyDown(key) =>
                IF activeElement \in Buttons
                THEN clicks' = << <<additionalButtonData[activeElement], FALSE>> >>
                ELSE clicks' = <<>> /\ UNCHANGED focusState
      ]_vars

\* C14: a mouseup over an element that is not a button of the grid makes no
\* onCellClick call and changes nothing of the focus, on either device class
\* and whatever has the focus.
C14_ReleaseOutside ==
    [][ last'.op = "mouseup" =>
          \A button \in MouseButtons :
             MouseUp(Body, button) => clicks' = <<>> /\ UNCHANGED focusState
      ]_vars

\* C14 witness: the pointer was released outside the buttons while (0, 0) had
\* the focus.
C14_Witness ==
    /\ run = ReleaseOutside
    /\ last.op = "mouseup"
    /\ clicks = <<>>
    /\ activeElement = ElementAt(0, 0)

\* The step onKeyDownOnTable takes for an arrow key.
ArrowStep(key) ==
    CASE key = "ArrowRight" -> <<1, 0>>
      [] key = "ArrowLeft" -> <<-1, 0>>
      [] key = "ArrowUp" -> <<0, -1>>
      [] key = "ArrowDown" -> <<0, 1>>

\* The arrow key a digit of the T9 keypad stands for.
ArrowOf(digit) ==
    CASE digit = "9" -> "ArrowRight"
      [] digit = "7" -> "ArrowLeft"
      [] digit = "5" -> "ArrowUp"
      [] digit = "0" -> "ArrowDown"

\* C15 as stated: on a constrained device a keydown of 9, 7, 5, 0 moves the
\* focus as the arrow key of that direction does; on another device a keydown
\* of 9, 7, 5, 0 or 8 on a focused button of the grid changes nothing of the
\* focus and makes no onCellClick call.
C15_Original ==
    [][ last'.op = "keydown" =>
          /\ cellFocus =>
               \A digit \in {"9", "7", "5", "0"} :
                  KeyDown(digit) =>
                     \A p \in {ArrowStep(ArrowOf(digit))} :
                        /\ activeElement' = moveFocusByKey(Self, p[1], p[2]).activeElement
                        /\ currentTabableBtn' = moveFocusByKey(Self, p[1], p[2]).currentTabableBtn
          /\ ~cellFocus =>
               \A key \in {"9", "7", "5", "0", "8"} :
                  (activeElement \in Buttons /\ KeyDown(key)) =>
                      clicks' = <<>> /\ UNCHANGED focusState
      ]_vars

\* The registrations componentDidMount and _createTable make.
WindowListeners == {listener("window", Body, "resize"), listener("window", Body, "keyup")}
GridListeners ==
    {listener("table", Body, type) :
        type \in {"keydown", "keyup", "mouseup", "mousedown", "contextmenu"}}
    \cup (IF cellFocus THEN {listener("table", Body, "mousemove")} ELSE {})
    \cup {listener("button", b, "blur") : b \in Buttons}
Once == [rendererStop |-> 1, animatorStop |-> 1, putCanvas |-> 1]
Never == [rendererStop |-> 0, animatorStop |-> 0, putCanvas |-> 0]

\* C16 as stated: once the component is unmounted no listener registration of
\* the widget is left, the subscription is gone, renderer.stop, animator.stop
\* and putCanvas were each called once, and a notification pushed afterwards
\* changes no label and no stored cell and makes no animator call.
C16_Original ==
    /\ [](~inDocument =>
            /\ listeners = {}
            /\ subscribers = {}
            /\ teardownCalls = Once)
    /\ [][ (~inDocument /\ last'.op = "stateChange") =>
              /\ UNCHANGED <<ariaLabel, additionalButtonData>>
              /\ animatorCalls' = <<>>
         ]_vars

\* C16 as amended: while mounted the widget holds the window's, the table's and
\* the buttons' registrations and the subscription, and none of renderer.stop,
\* animator.stop, putCanvas was called; once it is unmounted the window's
\* resize and keyup registrations and the subscription are gone, each of the
\* three was called once, and the registrations on the table and on the
\* buttons are still in place; a notification pushed afterwards changes no
\* label and no stored cell and makes no animator call.
C16_Teardown ==
    /\ [](inDocument =>
            /\ listeners = WindowListeners \cup GridListeners
            /\ subscribers = {"_doManualDomHandling"}
            /\ teardownCalls = Never)
    /\ [](~inDocument =>
            /\ listeners = GridListeners
            /\ subscribers = {}
            /\ teardownCalls = Once)
    /\ [][ (~inDocument /\ last'.op = "stateChange") =>
              /\ UNCHANGED <<ariaLabel, additionalButtonData>>
              /\ animatorCalls' = <<>>
         ]_vars

\* C16 witness: a notification with a delta for (2, 3) was pushed after the
\* component was unmounted, and the button of (2, 3) kept its label.
C16_Witness ==
    /\ ~inDocument
    /\ last.op = "stateChange"
    /\ Len(LastChanges) = 1
    /\ ariaLabel[ElementAt(2, 3)] = "hidden"
    /\ animatorCalls = <<>>
    /\ teardownCalls.putCanvas = 1

\* C17: there are Width * Height buttons, all different, the side-table holds
\* exactly them, and the button at index y * Width + x has the coordinate
\* (x, y), in every reachable state; right after construction every stored
\* cell is the neutral one.
C17_RowMajor ==
    /\ Len(buttons) = Width * Height
    /\ \A i, j \in DOMAIN buttons : buttons[i] = buttons[j] => i = j
    /\ DOMAIN additionalButtonData = {buttons[i] : i \in DOMAIN buttons}
    /\ \A x \in 0 .. (Width - 1), y \in 0 .. (Height - 1) :
          LET b == buttons[(y * Width + x) + 1]
          IN  additionalButtonData[b][1] = x /\ additionalButtonData[b][2] = y
    /\ last.op = "componentDidMount" =>
          \A b \in DOMAIN additionalButtonData : additionalButtonData[b][3] = defaultCell

\* C17 witness: a delta has overwritten the cell of (2, 3) and the focus has
\* moved to it; the button at index 3 * Width + 2 still has coordinate (2, 3).
C17_Witness ==
    /\ additionalButtonData[buttons[(3 * Width + 2) + 1]] = <<2, 3, RevealedThree>>
    /\ activeElement = buttons[(3 * Width + 2) + 1]
    /\ last.op = "stateChange"

\* C18: in every reachable state, a button that has the platform focus is the
\* roving target and has tabindex 0.
C18_FocusOnRovingTarget ==
    activeElement \in Buttons =>
        /\ activeElement = currentTabableBtn
        /\ tabindex[activeElement] = 0

\* C18 witness: the pointer was pressed over a button other than the focused
\* one, and the focus stayed on the roving target.
C18_Witness ==
    /\ last.op = "mousedown"
    /\ activeElement = ElementAt(4, 4)
    /\ currentTabableBtn = ElementAt(4, 4)
    /\ rendererFocus = <<4, 4>>

\* C19: in every reachable state the renderer's focus is (-1, -1) or the
\* coordinate of the roving target; right after setFocus it is the coordinate
\* of the new roving target, also when the focus transfer ran the blur listener
\* of the previous button; and the blur of the focused button clears it and
\* leaves the roving target as it was.
C19_IndicatorOnRovingTarget ==
    /\ [](rendererFocus \in {<<-1, -1>>, CoordOf(currentTabableBtn)})
    /\ [][ /\ last'.op = "setFocus" =>
                \A b \in {currentTabableBtn'} : rendererFocus' = CoordOf(b)
           /\ last'.op = "focusOut" =>
                /\ rendererFocus' = <<-1, -1>>
                /\ currentTabableBtn' = currentTabableBtn
         ]_vars

\* C19 witness: the keydown of "9" on the focused (0, 0) moved the focus to
\* (1, 0): the blur listener of (0, 0) ran, and the indicator is on (1, 0).
C19_Witness ==
    /\ run = SubSeq(PressNine, 1, 2)
    /\ currentTabableBtn = ElementAt(1, 0)
    /\ rendererFocus = <<1, 0>>

\* How far apart the coordinates of two buttons are, in steps.
Abs(n) == IF n < 0 THEN -n ELSE n
Distance(a, b) ==
    Abs(CoordOf(a)[1] - CoordOf(b)[1]) + Abs(CoordOf(a)[2] - CoordOf(b)[2])

\* C20: a keyup never changes the roving target, and a keydown moves it by at
\* most one cell, so that a key press (keydown, then keyup) moves it by at most
\* one cell: after the press of "9" on the focused (0, 0) it is (1, 0).
C20_NoDoubleFiring ==
    /\ [](run = PressNine => currentTabableBtn = ElementAt(1, 0))
    /\ [][ /\ last'.op = "keyup" => currentTabableBtn' = currentTabableBtn
           /\ last'.op = "keydown" =>
                \A a \in {currentTabableBtn}, b \in {currentTabableBtn'} :
                   Distance(a, b) <= 1
         ]_vars

\* C20 witness: on a constrained device "9" was pressed and released on the
\* focused (0, 0); the keyup went through the window's listener.
C20_Witness ==
    /\ run = PressNine
    /\ cellFocus
    /\ last.op = "keyup"
    /\ FocusIsAt(1, 0)

====
